---------------------------- MODULE Spec2Model ----------------------------
(***************************************************************************)
(* Model of src/app.js: the gesture classifier (onHandResults,             *)
(* detectGesture), the forced-gesture override (forceShape and its         *)
(* setTimeout callback) and the per-frame particle field update (animate,  *)
(* the particle vertex shader, updateParticleColors).                      *)
(*                                                                         *)
(* Numbers are fixed point in thousandths: 1.0 is 1000, the 0.05 margin of *)
(* the finger test is 50.  The anchor (state.handPosition and the handPos   *)
(* uniform) is kept in half-thousandths, 1.0 being 2000, so that the mean   *)
(* of two landmark coordinates is exact.  A JavaScript NaN is the value NaN *)
(* below, with the arithmetic and comparisons of IEEE 754 (every comparison *)
(* with NaN is false, every sum with NaN is NaN).  A thrown TypeError is    *)
(* the value TypeError returned in place of a result.                       *)
(***************************************************************************)
EXTENDS Integers, Sequences, FiniteSets, TLC

VARIABLES
    handPosition,      \* state.handPosition: [x, y, z], in half-thousandths
    currentGesture,    \* state.currentGesture
    isForcedShape,     \* state.isForcedShape
    forcedShapeTimer,  \* state.forcedShapeTimer: 0 is null, else a timer id
    timers,            \* the host's pending timeouts: id -> whether its delay is over
    nextTimerId,       \* the id the next setTimeout returns
    elapsed,           \* whether 5000 ms have passed since the last forceShape call
    lastForced,        \* argument of the last forceShape call
    cancelled,         \* whether a timeout was cleared while still pending
    lastOp,            \* the handler that ran last; "nohand" is the callback given no hand
    threw,             \* whether the last handler ended by throwing
    memo,              \* classifier calls kept for comparison: at most two records
    time,              \* state.time
    particleCount,     \* state.particleCount
    particles,         \* the tracked particles' attributes: position, random, color
    uniforms           \* particleSystem.material.uniforms: time, handPos, gesture

gvars == <<handPosition, currentGesture, isForcedShape, forcedShapeTimer,
           timers, nextTimerId, elapsed, lastForced, cancelled, lastOp,
           threw>>

fvars == <<time, particleCount, particles, uniforms>>

vars == <<gvars, memo, fvars>>

----------------------------------------------------------------------------
(* Bounds of the model *)

\* number of forceShape calls in one behaviour
MaxForce == 2
\* number of animation frames after the one of the page load
MaxFrames == 1

----------------------------------------------------------------------------
(* GESTURES, src/app.js:24-30 *)

NONE == "none"
FIST == "fist"
OPEN == "open"
PEACE == "peace"
METAL == "metal"

GESTURES == {NONE, FIST, OPEN, PEACE, METAL}

\* what a caller of forceShape may pass: a value of GESTURES, one of its keys
\* (a string that is none of its values), and the name of a property every
\* object inherits
Shapes == {FIST, "FIST", "constructor"}

----------------------------------------------------------------------------
(* IEEE 754 NaN and the arithmetic used by the classifier *)

NaN == 10^9
TypeError == "TypeError"

Add(a, b) == IF a = NaN \/ b = NaN THEN NaN ELSE a + b
Sub(a, b) == IF a = NaN \/ b = NaN THEN NaN ELSE a - b
Neg(a) == IF a = NaN THEN NaN ELSE 0 - a
\* (a + b) / 2 of two numbers in thousandths, in half-thousandths
Mean(a, b) == IF a = NaN \/ b = NaN THEN NaN ELSE a + b
Twice(a) == IF a = NaN THEN NaN ELSE a * 2
Abs(a) == IF a = NaN THEN NaN ELSE IF a < 0 THEN 0 - a ELSE a
Lt(a, b) == a # NaN /\ b # NaN /\ a < b
Gt(a, b) == a # NaN /\ b # NaN /\ a > b
\* Math.min / Math.max return NaN when an argument is NaN
MathMin(a, b) == IF a = NaN \/ b = NaN THEN NaN ELSE IF a < b THEN a ELSE b
MathMax(a, b) == IF a = NaN \/ b = NaN THEN NaN ELSE IF a > b THEN a ELSE b

----------------------------------------------------------------------------
(* Tracker results fed to onHandResults *)

Point(px, py, pz) == [x |-> px, y |-> py, z |-> pz]

\* A hand of len landmarks (indices 0..len-1).  Wrist and finger bases sit at
\* (wx, 400, wz); tipY[k] is the y of the tip of finger k (index, middle,
\* ring, pinky); the thumb tip is at x = thumbX.
MkHand(len, tipY, thumbX, wx, wz) ==
    [i \in 0..(len - 1) |->
        CASE i = 8  -> Point(wx, tipY[1], wz)
          [] i = 12 -> Point(wx, tipY[2], wz)
          [] i = 16 -> Point(wx, tipY[3], wz)
          [] i = 20 -> Point(wx, tipY[4], wz)
          [] i = 4  -> Point(thumbX, 400, wz)
          [] OTHER  -> Point(wx, 400, wz)]

\* the hand h with its wrist (landmark 0) moved by d on every axis
MoveWrist(h, d) ==
    [h EXCEPT ![0] = Point(Add(h[0].x, d), Add(h[0].y, d), Add(h[0].z, d))]

\* with the bases at 400, a tip at 340 is raised past the margin and a tip at
\* 360 is not
TipYs == {340, 360}
TipPatterns == [1..4 -> TipYs]

\* every finger pattern and thumb state at one palm position
PatternHands == {MkHand(21, p, 300 + dx, 300, 0) : p \in TipPatterns, dx \in {0, 60}}

\* palms: x, depth (inside and beyond the clamp range) and the offset of the
\* wrist from the middle-finger base
Palms == {<<300, 0, 1>>, <<700, 400, 1>>, <<700, -3000, 0>>, <<700, 3000, 1>>}

\* at each palm, the four tips on the margin itself (350) or short of it
PalmHands ==
    {MoveWrist(MkHand(21, [k \in 1..4 |-> y], palm[1], palm[1], palm[2]), palm[3]) :
        y \in {350, 360}, palm \in Palms}

\* at the palm of PatternHands, tips 50 above the bases at 400, where the
\* rounding of line 568 decides, and the thumb 50 aside
MarginHands ==
    {MkHand(21, p, 350, 300, 0) : p \in {<<350, 350, 350, 350>>, <<350, 360, 360, 350>>}}

WellFormedHands == PatternHands \cup MarginHands \cup PalmHands

\* fewer than 21 landmarks, or NaN coordinates
MalformedHands ==
    {MkHand(20, [k \in 1..4 |-> 340], 300, 300, 0),
     MkHand(9, [k \in 1..4 |-> 340], 300, 300, 0),
     MkHand(21, [k \in 1..4 |-> NaN], 300, 300, 0),
     MkHand(21, [k \in 1..4 |-> 340], 300, 300, NaN)}

Hands == WellFormedHands \cup MalformedHands

\* results objects: the field missing, an empty list, or one hand
NoHandResults == {[image |-> 0], [image |-> 0, multiHandLandmarks |-> <<>>]}
OneHand(h) == [image |-> 0, multiHandLandmarks |-> <<h>>]

\* the hands of the live tracker: one for each rule, one matching none, and
\* the malformed ones
LiveHands ==
    {MkHand(21, p, 360, 300, 0) :
        p \in {<<340, 360, 360, 340>>, <<340, 340, 360, 360>>, <<360, 360, 360, 360>>,
               <<340, 340, 340, 340>>, <<340, 360, 360, 360>>}}
    \cup MalformedHands
HandResults == {OneHand(h) : h \in LiveHands}

----------------------------------------------------------------------------
(* The classifier *)

Has(landmarks, i) == i \in DOMAIN landmarks

\* The code works on doubles, where base - 0.05 and tip - base are rounded.
\* For coordinates on the thousandth grid within [0, 1] the rounding decides
\* the tests only at a distance of exactly 50 thousandths.
\* The bases b for which the double b/1000 - 0.05 lies above the double
\* (b - 50)/1000, so that a tip at b - 50 passes the test of line 568:
FingerMarginUp ==
    (68..70) \cup (101..101) \cup (136..140) \cup (168..171) \cup (191..203)
    \cup (254..281) \cup (332..343) \cup (394..406) \cup (457..468) \cup (519..549)

\* The coordinates s for which the double (s + 50)/1000 - s/1000 lies above
\* the double 0.05, so that thumb landmarks at s and s + 50 pass the test of
\* line 575:
ThumbMarginUp ==
    (51..51) \cup (86..90) \cup (118..121) \cup (141..153) \cup (172..184)
    \cup (204..231) \cup (282..293) \cup (344..356) \cup (407..418) \cup (469..512)
    \cup (563..637) \cup (688..762) \cup (813..887) \cup (938..950)

\* src/app.js:564-569
isFingerExtended(landmarks, tipIdx, baseIdx) ==
    LET tip == landmarks[tipIdx].y
        base == landmarks[baseIdx].y
    IN  \/ Lt(tip, Sub(base, 50))
        \/ tip # NaN /\ base # NaN /\ tip = base - 50 /\ base \in FingerMarginUp

\* src/app.js:571-576
isThumbExtended(landmarks) ==
    LET tip == landmarks[4].x
        base == landmarks[2].x
    IN  \/ Gt(Abs(Sub(tip, base)), 50)
        \/ /\ tip # NaN /\ base # NaN /\ Abs(tip - base) = 50
           /\ (IF tip < base THEN tip ELSE base) \in ThumbMarginUp

\* the fingers object of detectGesture, src/app.js:533-539
Fingers(landmarks) ==
    [thumb  |-> isThumbExtended(landmarks),
     index  |-> isFingerExtended(landmarks, 8, 5),
     middle |-> isFingerExtended(landmarks, 12, 9),
     ring   |-> isFingerExtended(landmarks, 16, 13),
     pinky  |-> isFingerExtended(landmarks, 20, 17)]

\* reading .x or .y of a missing landmark throws
FingersThrow(landmarks) ==
    \E i \in {4, 2, 8, 5, 12, 9, 16, 13, 20, 17} : ~Has(landmarks, i)

\* the fall-through switching to NONE
ClassifyMutNone(fingers, previous) ==
    IF fingers.index /\ ~fingers.middle /\ ~fingers.ring /\ fingers.pinky THEN METAL
    ELSE IF fingers.index /\ fingers.middle /\ ~fingers.ring /\ ~fingers.pinky THEN PEACE
    ELSE IF ~fingers.index /\ ~fingers.middle /\ ~fingers.ring /\ ~fingers.pinky THEN FIST
    ELSE IF fingers.index /\ fingers.middle /\ fingers.ring /\ fingers.pinky THEN OPEN
    ELSE NONE

\* the FIST rule left out
ClassifyMutNoFist(fingers, previous) ==
    IF fingers.index /\ ~fingers.middle /\ ~fingers.ring /\ fingers.pinky THEN METAL
    ELSE IF fingers.index /\ fingers.middle /\ ~fingers.ring /\ ~fingers.pinky THEN PEACE
    ELSE IF fingers.index /\ fingers.middle /\ fingers.ring /\ fingers.pinky THEN OPEN
    ELSE previous

\* the four rules and the fall-through, src/app.js:541-561
Classify(fingers, previous) ==
    IF fingers.index /\ ~fingers.middle /\ ~fingers.ring /\ fingers.pinky THEN METAL
    ELSE IF fingers.index /\ fingers.middle /\ ~fingers.ring /\ ~fingers.pinky THEN PEACE
    ELSE IF ~fingers.index /\ ~fingers.middle /\ ~fingers.ring /\ ~fingers.pinky THEN FIST
    ELSE IF fingers.index /\ fingers.middle /\ fingers.ring /\ fingers.pinky THEN OPEN
    ELSE previous

\* src/app.js:531-562; previous is state.currentGesture at the call
detectGesture(landmarks, previous) ==
    IF FingersThrow(landmarks) THEN TypeError
    ELSE Classify(Fingers(landmarks), previous)

\* src/app.js:504-513, in half-thousandths: 1 is 2000
Anchor(wrist, middleBase) ==
    [x |-> Sub(Twice(Sub(2000, Mean(wrist.x, middleBase.x))), 2000),
     y |-> Neg(Sub(Twice(Mean(wrist.y, middleBase.y)), 2000)),
     z |-> MathMax(-2000, MathMin(2000, Neg(Mean(wrist.z, middleBase.z))))]

----------------------------------------------------------------------------
(* The particle field.  The arrays hold particleCount particles; the model  *)
(* keeps the entries of the indices in Tracked, the particles being         *)
(* independent of each other.  Positions are the x components, in           *)
(* thousandths of a world unit.  A colour is kept as the hue given to       *)
(* setHSL (saturation 1, lightness 0.5).                                    *)

Tracked == {0, 6, 13}

\* Math.random(): the values successive calls return, repeated in a cycle
\* which a handler enters at any place (the seed)
RandomCycle == <<0, 500, 980, 200>>
Seeds == 0..(Len(RandomCycle) - 1)

\* the value of call number n, counted from 0, of a handler entering at seed
MathRandom(seed, n) == RandomCycle[((seed + n) % Len(RandomCycle)) + 1]

\* values of the sine and cosine factors of the shader, whose arguments depend
\* on the time and on the particle's randoms
Waves == {-1000, 0, 1000}

\* product of two fixed-point numbers
FMul(a, b) == IF a = NaN \/ b = NaN THEN NaN ELSE (a * b) \div 1000

\* src/app.js:156-197, for the tracked indices: particle i takes calls 9*i to
\* 9*i + 8 (three for the position, the hue, the size, four for random)
NewParticles(count, seed) ==
    [i \in {t \in Tracked : t < count} |->
        [position |-> FMul(MathRandom(seed, 9 * i) - 500, 1000000),
         color    |-> 500 + FMul(MathRandom(seed, 9 * i + 3), 100),
         random   |-> [x |-> MathRandom(seed, 9 * i + 5),
                       y |-> MathRandom(seed, 9 * i + 6),
                       z |-> MathRandom(seed, 9 * i + 7),
                       w |-> MathRandom(seed, 9 * i + 8)]]]

\* the uniforms of a new material, src/app.js:200-204
NewUniforms == [time |-> 0, handPos |-> Point(0, 0, 0), gesture |-> 0]

\* names of the properties an object literal inherits from Object.prototype
ObjectPrototypeKeys ==
    {"constructor", "hasOwnProperty", "isPrototypeOf", "propertyIsEnumerable",
     "toLocaleString", "toString", "valueOf", "__proto__",
     "__defineGetter__", "__defineSetter__", "__lookupGetter__", "__lookupSetter__"}

\* the value of such a property: a function (for __proto__ an object), which
\* is truthy and not a number
Inherited == 0 - 10^9

\* gestureMap[state.currentGesture] || 0, src/app.js:386-393: the lookup also
\* finds the properties gestureMap inherits
GestureUniform(gesture) ==
    CASE gesture = "none" -> 0
      [] gesture = "fist" -> 1
      [] gesture = "open" -> 2
      [] gesture = "peace" -> 3
      [] gesture = "metal" -> 4
      [] gesture \in ObjectPrototypeKeys -> Inherited
      [] OTHER -> 0

\* the switch of updateParticleColors, src/app.js:411-431
HueBase(gesture) ==
    CASE gesture = "fist" -> 80
      [] gesture = "open" -> 400
      [] gesture = "peace" -> 600
      [] gesture = "metal" -> 950
      [] OTHER -> 500

HueRange(gesture) ==
    CASE gesture = "fist" -> 100
      [] gesture = "open" -> 150
      [] gesture = "peace" -> 200
      [] gesture = "metal" -> 100
      [] OTHER -> 100

\* every 10th particle whatever the count
UpdateIntervalMutTen(count) == 10

\* Math.max(1, Math.floor(count / 300)), src/app.js:437
UpdateInterval(count) == IF count \div 300 > 1 THEN count \div 300 ELSE 1

\* src/app.js:407-450: the loop visits i = 0, interval, 2*interval, ... < count
\* and calls Math.random() once for each
updateParticleColors(ps, count, gesture, seed) ==
    [i \in DOMAIN ps |->
        IF i < count /\ i % UpdateInterval(count) = 0
        THEN [ps[i] EXCEPT !.color =
                 HueBase(gesture)
                 + FMul(MathRandom(seed, i \div UpdateInterval(count)) - 500,
                        HueRange(gesture))]
        ELSE ps[i]]

\* GLSL step and mix
Step(edge, v) == IF Lt(v, edge) THEN 0 ELSE 1000
Mix(a, b, t) ==
    IF a = NaN \/ b = NaN \/ t = NaN THEN NaN
    ELSE (a * (1000 - t) + b * t) \div 1000

\* GLSL pow(x, 3.0), src/app.js:309: the result is undefined for x < 0, where
\* a build yields NaN (exp2(3.0 * log2(x))) or the cube
Pow3(x) ==
    IF x = NaN THEN {NaN}
    ELSE IF x < 0 THEN {NaN, FMul(FMul(x, x), x)}
    ELSE {FMul(FMul(x, x), x)}

\* blend of the branch the shader takes, src/app.js:249-324
ShaderBlend(gesture) ==
    CASE gesture = 1 -> 950
      [] gesture = 2 -> 900
      [] gesture = 3 -> 920
      [] gesture = 4 -> 940
      [] OTHER -> 20

\* the values target.x of the branch the shader takes can have,
\* src/app.js:245-324; c1 and c2 are the values of the trigonometric factors
\* of that branch
ShaderTargetX(gesture, pos, handPos, random, c1, c2) ==
    LET hand == FMul(handPos.x, 250000)
        r == random.x
    IN  CASE gesture = 1 ->
               IF Step(300, random.w) > 500
               THEN {Add(hand, FMul(c1, Add(120000, FMul(r, 80000))))}
               ELSE {Add(hand, FMul(FMul(FMul(r, 60000), c1), c2))}
          [] gesture = 2 ->
               IF Step(300, random.w) > 500
               THEN {Add(hand, FMul(FMul(FMul(r, 50000), c1), c2))}
               ELSE {Add(hand, FMul(c1, Add(200000, FMul(r, 200000))))}
          [] gesture = 3 ->
               LET charIndex == IF r = NaN THEN NaN ELSE ((r * 7) \div 1000) * 1000
                   charX == FMul(Sub(charIndex, 3000), 40000)
               IN  {Add(Add(hand, charX), FMul(Sub(random.w, 500), 30000))}
          [] gesture = 4 ->
               LET scale == FMul(5000, Add(1000, FMul(c2, 100)))
               IN  {Add(hand, FMul(FMul(16000, cube), scale)) : cube \in Pow3(c1)}
          [] OTHER -> {Add(pos, FMul(c1, 50000))}

\* the values pos.x handed to the rasteriser can have, src/app.js:326-336; c3
\* is the sine of the noise term
ShaderPosX(gesture, pos, handPos, random, c1, c2, c3) ==
    {Add(Mix(pos, target, FMul(ShaderBlend(gesture), 100)), FMul(c3, 2000)) :
        target \in ShaderTargetX(gesture, pos, handPos, random, c1, c2)}

----------------------------------------------------------------------------
(* Handlers *)

\* window.innerWidth
Widths == {500, 1024}

\* The state once the page has loaded, src/app.js:13-21 and 677-680: initThree
\* creates the particles and runs the first frame (line 64) before the
\* tracker callback is registered, the calls of Math.random() of the frame
\* following those of the creation.
Init ==
    /\ handPosition = Point(0, 0, 0)
    /\ currentGesture = "none"
    /\ isForcedShape = FALSE
    /\ forcedShapeTimer = 0
    /\ timers = <<>>
    /\ nextTimerId = 1
    /\ elapsed = TRUE
    /\ lastForced = "-"
    /\ cancelled = FALSE
    /\ lastOp = "init"
    /\ threw = FALSE
    /\ memo = <<>>
    /\ time = 16
    /\ \E innerWidth \in Widths, seed \in Seeds :
          /\ particleCount = IF innerWidth < 768 THEN 2000 ELSE 4000
          /\ particles = updateParticleColors(NewParticles(particleCount, seed),
                                              particleCount, "none",
                                              seed + 9 * particleCount)
    /\ uniforms = [NewUniforms EXCEPT !.time = 16]

\* src/app.js:492-529
onHandResultsMutUnguarded(results) ==
    /\ lastOp' = IF "multiHandLandmarks" \in DOMAIN results /\ Len(results.multiHandLandmarks) > 0
                 THEN "hand" ELSE "nohand"
    /\ UNCHANGED <<isForcedShape, forcedShapeTimer, timers, nextTimerId,
                   elapsed, lastForced, cancelled>>
    /\ IF "multiHandLandmarks" \in DOMAIN results /\ Len(results.multiHandLandmarks) > 0
       THEN LET landmarks == results.multiHandLandmarks[1] IN
            IF ~Has(landmarks, 0) \/ ~Has(landmarks, 9)
            THEN /\ threw' = TRUE
                 /\ UNCHANGED <<handPosition, currentGesture>>
            ELSE /\ handPosition' = Anchor(landmarks[0], landmarks[9])
                 /\ LET g == detectGesture(landmarks, currentGesture) IN
                    IF g = TypeError
                    THEN threw' = TRUE /\ UNCHANGED currentGesture
                    ELSE threw' = FALSE /\ currentGesture' = g
       ELSE /\ currentGesture' = NONE
            /\ threw' = FALSE
            /\ UNCHANGED handPosition

onHandResultsMutMoveAnchor(results) ==
    /\ lastOp' = IF "multiHandLandmarks" \in DOMAIN results /\ Len(results.multiHandLandmarks) > 0
                 THEN "hand" ELSE "nohand"
    /\ UNCHANGED <<isForcedShape, forcedShapeTimer, timers, nextTimerId,
                   elapsed, lastForced, cancelled>>
    /\ IF "multiHandLandmarks" \in DOMAIN results /\ Len(results.multiHandLandmarks) > 0
       THEN LET landmarks == results.multiHandLandmarks[1] IN
            IF ~Has(landmarks, 0) \/ ~Has(landmarks, 9)
            THEN /\ threw' = TRUE
                 /\ UNCHANGED <<handPosition, currentGesture>>
            ELSE /\ handPosition' = Anchor(landmarks[0], landmarks[9])
                 /\ IF ~isForcedShape
                    THEN LET g == detectGesture(landmarks, currentGesture) IN
                         IF g = TypeError
                         THEN threw' = TRUE /\ UNCHANGED currentGesture
                         ELSE threw' = FALSE /\ currentGesture' = g
                    ELSE threw' = FALSE /\ UNCHANGED currentGesture
       ELSE /\ IF ~isForcedShape
               THEN currentGesture' = NONE
               ELSE UNCHANGED currentGesture
            /\ threw' = FALSE
            /\ handPosition' = Point(0, 0, 0)

onHandResults(results) ==
    /\ lastOp' = IF "multiHandLandmarks" \in DOMAIN results /\ Len(results.multiHandLandmarks) > 0
                 THEN "hand" ELSE "nohand"
    /\ UNCHANGED <<isForcedShape, forcedShapeTimer, timers, nextTimerId,
                   elapsed, lastForced, cancelled>>
    /\ IF "multiHandLandmarks" \in DOMAIN results /\ Len(results.multiHandLandmarks) > 0
       THEN LET landmarks == results.multiHandLandmarks[1] IN
            \* line 504 reads wrist.x and middleBase.x before any assignment
            IF ~Has(landmarks, 0) \/ ~Has(landmarks, 9)
            THEN /\ threw' = TRUE
                 /\ UNCHANGED <<handPosition, currentGesture>>
            ELSE /\ handPosition' = Anchor(landmarks[0], landmarks[9])
                 /\ IF ~isForcedShape
                    THEN LET g == detectGesture(landmarks, currentGesture) IN
                         IF g = TypeError
                         THEN threw' = TRUE /\ UNCHANGED currentGesture
                         ELSE threw' = FALSE /\ currentGesture' = g
                    ELSE threw' = FALSE /\ UNCHANGED currentGesture
       ELSE /\ IF ~isForcedShape
               THEN currentGesture' = NONE
               ELSE UNCHANGED currentGesture
            /\ threw' = FALSE
            /\ UNCHANGED handPosition

\* clearTimeout(id): a pending timeout with that id is dropped
clearTimeout(pending, id) == [t \in DOMAIN pending \ {id} |-> pending[t]]

\* setTimeout(callback, 5000) returning id: the delay has yet to pass
setTimeout(pending, id) == [t \in DOMAIN pending \cup {id} |-> IF t = id THEN FALSE ELSE pending[t]]

\* src/app.js:637-658
forceShapeMutNoClear(shape) ==
    /\ nextTimerId <= MaxForce
    /\ currentGesture' = shape
    /\ isForcedShape' = TRUE
    /\ timers' = setTimeout(timers, nextTimerId)
    /\ forcedShapeTimer' = nextTimerId
    /\ nextTimerId' = nextTimerId + 1
    /\ elapsed' = FALSE
    /\ lastForced' = shape
    /\ cancelled' = cancelled
    /\ lastOp' = "force"
    /\ threw' = FALSE
    /\ UNCHANGED <<handPosition>>

forceShape(shape) ==
    /\ nextTimerId <= MaxForce
    /\ currentGesture' = shape
    /\ isForcedShape' = TRUE
    /\ timers' = setTimeout(IF forcedShapeTimer # 0
                            THEN clearTimeout(timers, forcedShapeTimer)
                            ELSE timers,
                            nextTimerId)
    /\ forcedShapeTimer' = nextTimerId
    /\ nextTimerId' = nextTimerId + 1
    /\ elapsed' = FALSE
    /\ lastForced' = shape
    /\ cancelled' = (cancelled \/ forcedShapeTimer \in DOMAIN timers)
    /\ lastOp' = "force"
    /\ threw' = FALSE
    /\ UNCHANGED <<handPosition>>

\* the callback of src/app.js:649-652, run by the host once its delay is over
forcedShapeTimeoutMutKeep(id) ==
    /\ id \in DOMAIN timers
    /\ timers[id]
    /\ timers' = clearTimeout(timers, id)
    /\ isForcedShape' = FALSE
    /\ UNCHANGED currentGesture
    /\ lastOp' = "timer"
    /\ threw' = FALSE
    /\ lastForced' = "-"
    /\ UNCHANGED <<handPosition, forcedShapeTimer, nextTimerId, elapsed,
                   cancelled>>

forcedShapeTimeout(id) ==
    /\ id \in DOMAIN timers
    /\ timers[id]
    /\ timers' = clearTimeout(timers, id)
    /\ isForcedShape' = FALSE
    /\ currentGesture' = NONE
    /\ lastOp' = "timer"
    /\ threw' = FALSE
    /\ lastForced' = "-"
    /\ UNCHANGED <<handPosition, forcedShapeTimer, nextTimerId, elapsed,
                   cancelled>>

\* 5000 ms pass on the host clock: every pending timeout becomes due
Tick ==
    /\ \/ ~elapsed
       \/ \E t \in DOMAIN timers : ~timers[t]
    /\ timers' = [t \in DOMAIN timers |-> TRUE]
    /\ elapsed' = TRUE
    /\ lastOp' = "tick"
    /\ threw' = FALSE
    /\ UNCHANGED <<handPosition, currentGesture, isForcedShape, forcedShapeTimer,
                   nextTimerId, lastForced, cancelled>>

\* src/app.js:367-405; the shader reads the attributes and uniforms and
\* writes neither
animate ==
    /\ time < (MaxFrames + 1) * 16
    /\ time' = time + 16
    /\ uniforms' = [time |-> time', handPos |-> handPosition,
                    gesture |-> GestureUniform(currentGesture)]
    /\ \E seed \in Seeds :
          particles' = updateParticleColors(particles, particleCount, currentGesture, seed)
    /\ lastOp' = "animate"
    /\ threw' = FALSE
    /\ UNCHANGED <<handPosition, currentGesture, isForcedShape, forcedShapeTimer,
                   timers, nextTimerId, elapsed, lastForced, cancelled,
                   particleCount>>

\* src/app.js:67-75 with createParticleSystem, src/app.js:147-214
onWindowResize(innerWidth) ==
    /\ particleCount' = IF innerWidth < 768 THEN 2000 ELSE 4000
    /\ \E seed \in Seeds : particles' = NewParticles(particleCount', seed)
    /\ uniforms' = NewUniforms
    /\ lastOp' = "resize"
    /\ threw' = FALSE
    /\ UNCHANGED <<handPosition, currentGesture, isForcedShape, forcedShapeTimer,
                   timers, nextTimerId, elapsed, lastForced, cancelled,
                   time>>

\* memo is a record of calls kept by ClassifyCallback below alone: every other
\* action empties it
TrackerCallback ==
    /\ \E results \in NoHandResults \cup HandResults : onHandResults(results)
    /\ memo' = <<>>
    /\ UNCHANGED fvars

ForceShapeCall ==
    /\ \E shape \in Shapes : forceShape(shape)
    /\ memo' = <<>>
    /\ UNCHANGED fvars

TimerFire ==
    /\ \E id \in DOMAIN timers : forcedShapeTimeout(id)
    /\ memo' = <<>>
    /\ UNCHANGED fvars

ClockTick == Tick /\ memo' = <<>> /\ UNCHANGED fvars

Frame == animate /\ memo' = <<>>

Resize == (\E innerWidth \in Widths : onWindowResize(innerWidth)) /\ memo' = <<>>

Next ==
    \/ TrackerCallback
    \/ ForceShapeCall
    \/ TimerFire
    \/ ClockTick
    \/ Frame
    \/ Resize

Spec == Init /\ [][Next]_vars

\* the host clock advances and a due timeout is eventually run
FairSpec == Spec /\ WF_vars(ClockTick) /\ WF_vars(TimerFire)

----------------------------------------------------------------------------
(* Properties of the classifier and the override *)

\* the truth table of section 4.1 over the four finger booleans
Table(index, middle, ring, pinky, previous) ==
    CASE <<index, middle, ring, pinky>> = <<TRUE, FALSE, FALSE, TRUE>> -> METAL
      [] <<index, middle, ring, pinky>> = <<TRUE, TRUE, FALSE, FALSE>> -> PEACE
      [] <<index, middle, ring, pinky>> = <<FALSE, FALSE, FALSE, FALSE>> -> FIST
      [] <<index, middle, ring, pinky>> = <<TRUE, TRUE, TRUE, TRUE>> -> OPEN
      [] OTHER -> previous

\* the gestures current when detectGesture is called: it is called with no
\* override active only (line 515), and an invariant of Spec
LiveGestures == ~isForcedShape => currentGesture \in GESTURES

\* the results fed to the callback where its calls are recorded: every
\* finger pattern with either thumb state, tips on the margin, the malformed
\* hands, and no hand
ClassifyResults ==
    NoHandResults \cup {OneHand(h) : h \in PatternHands \cup MarginHands \cup MalformedHands}

\* no frame, resize or forceShape has run since the page loaded
AsLoaded == time = 16 /\ uniforms.time = 16 /\ nextTimerId = 1

\* one call of onHandResults with the hand h as memo keeps it: the gesture
\* current before and after it, the anchor it left and whether it threw
CallRecord(h) ==
    [landmarks |-> h, previous |-> currentGesture, gesture |-> currentGesture',
     anchor |-> handPosition', threw |-> threw']

\* The tracker callback, its calls recorded while the page is as loaded.
\* memo keeps the last call that reported a hand, after the one before it
\* when that one reported the same hand; a callback without a hand leaves
\* memo as it is.
ClassifyCallback ==
    /\ \E results \in ClassifyResults :
          /\ onHandResults(results)
          /\ memo' = IF ~AsLoaded THEN <<>>
                     ELSE IF results \in NoHandResults THEN memo
                     ELSE LET h == results.multiHandLandmarks[1] IN
                          IF memo # <<>> /\ memo[Len(memo)].landmarks = h
                          THEN <<memo[Len(memo)], CallRecord(h)>>
                          ELSE <<CallRecord(h)>>
    /\ UNCHANGED fvars

NextClassify ==
    \/ ClassifyCallback
    \/ ForceShapeCall
    \/ TimerFire
    \/ ClockTick
    \/ Frame
    \/ Resize

SpecClassify == Init /\ [][NextClassify]_vars

\* C1: for each of the 16 combinations of the four finger booleans, either
\* thumb state and any previous gesture, a live classification yields METAL,
\* PEACE, FIST or OPEN by the table and the previous gesture in the other 12
\* combinations; the thumb plays no part.
C1_TruthTable ==
    \A i \in 1..Len(memo) :
        LET h == memo[i].landmarks
            f == Fingers(h)
        IN  h \in WellFormedHands
            => memo[i].gesture = Table(f.index, f.middle, f.ring, f.pinky, memo[i].previous)

\* an ambiguous pose (index alone raised, thumb out) was classified while METAL
\* was current, and METAL stays
C1_Witness ==
    \E i \in 1..Len(memo) :
        LET h == memo[i].landmarks IN
        /\ h \in WellFormedHands
        /\ h[8].y = 340 /\ h[12].y = 360 /\ h[16].y = 360 /\ h[20].y = 360
        /\ h[4].x # h[2].x
        /\ memo[i].previous = METAL /\ memo[i].gesture = METAL

\* C2: while an override is active the current gesture is the forced one,
\* whatever tracker callbacks arrive.
C2_ForcedHolds == isForcedShape => currentGesture = lastForced

\* a hand was reported and its anchor taken while FIST is forced
C2_Witness ==
    /\ isForcedShape /\ lastForced = FIST
    /\ lastOp = "hand" /\ ~threw /\ handPosition # Point(0, 0, 0)

\* C3: after forceShape the reversion timer fires (the one of the last
\* forceShape call, the calls of a behaviour being finitely many), and right
\* after it the override is inactive and the gesture is NONE; from there only
\* a tracker callback (or a new forceShape) moves the gesture away from NONE.
C3_Reverts ==
    /\ isForcedShape ~> (lastOp = "timer" /\ ~isForcedShape /\ currentGesture = NONE)
    /\ [][(~isForcedShape /\ currentGesture = NONE /\ currentGesture' # NONE)
          => lastOp' \in {"hand", "force"}]_vars

\* the timer fired after a hand had been reported (the anchor is off the origin)
C3_Witness ==
    /\ lastOp = "timer" /\ handPosition # Point(0, 0, 0)
    /\ ~isForcedShape /\ currentGesture = NONE

\* C4: at most one reversion timer is pending, it is the one of the latest
\* forceShape, and an override is never ended before its full window elapsed.
C4_OneTimer ==
    /\ [](Cardinality(DOMAIN timers) <= 1 /\ DOMAIN timers \subseteq {forcedShapeTimer})
    /\ [][(isForcedShape /\ ~isForcedShape') => elapsed]_vars

\* an override replaced a pending one, and later its own timer fired
C4_Witness ==
    /\ lastOp = "timer" /\ cancelled
    /\ forcedShapeTimer >= 2 /\ ~isForcedShape

\* C5: a callback without a hand does not throw and leaves the anchor alone;
\* the gesture becomes NONE without an override and stays under one.
C5_NoHand ==
    [][\A r \in NoHandResults :
          onHandResults(r)
          => /\ ~threw'
             /\ handPosition' = handPosition
             /\ currentGesture' = IF isForcedShape THEN currentGesture ELSE NONE]_vars

\* no hand was reported under a forced FIST, the anchor being away from the origin
C5_Witness ==
    /\ lastOp = "nohand"
    /\ isForcedShape /\ currentGesture = FIST
    /\ handPosition # Point(0, 0, 0)

\* C6: a callback with a malformed hand (a used landmark missing, or NaN
\* coordinates) and no override active leaves the gesture NONE and does not
\* throw.
C6_FailsClosed ==
    [][\A h \in MalformedHands :
          (~isForcedShape /\ onHandResults(OneHand(h)))
          => (currentGesture' = NONE /\ ~threw')]_vars

\* C7: the current gesture is always one of the five values of GESTURES.
C7_Enumerated == currentGesture \in GESTURES

\* whether the pose of h matches one of the four rules
Decisive(h) ==
    LET f == Fingers(h) IN
    Table(f.index, f.middle, f.ring, f.pinky, "ambiguous") # "ambiguous"

BothReturned == Len(memo) = 2 /\ ~memo[1].threw /\ ~memo[2].threw

\* C10 as stated: two calls with the same landmark set yield the same gesture
\* and anchor, whatever the gesture current at each call.
C10_Pure ==
    BothReturned
    => (memo[1].gesture = memo[2].gesture /\ memo[1].anchor = memo[2].anchor)

\* C10 amended: two calls with the same landmark set yield the same anchor,
\* and the same gesture when the pose matches one of the four rules or the
\* gesture current at both calls is the same.
C10_PureUpToPrevious ==
    BothReturned
    => /\ memo[1].anchor = memo[2].anchor
       /\ (Decisive(memo[1].landmarks) \/ memo[1].previous = memo[2].previous)
          => memo[1].gesture = memo[2].gesture

\* the all-retracted pose classified twice, METAL current the first time and
\* NONE the second, FIST both times
C10_Witness ==
    /\ BothReturned
    /\ memo[1].previous = METAL /\ memo[2].previous = NONE
    /\ memo[1].gesture = FIST /\ memo[2].gesture = FIST

----------------------------------------------------------------------------
(* Properties of the particle field *)

\* C8: each frame under a gesture other than NONE replaces the stored
\* position of every particle by mix(stored position, target, blend * 0.1),
\* so that the position carries over and closes in on the target.
C8_CarriesOver ==
    [][(time' # time /\ uniforms'.gesture # 0)
       => \A i \in DOMAIN particles :
             \E c1 \in Waves, c2 \in Waves :
                \E target \in ShaderTargetX(uniforms'.gesture, particles[i].position,
                                            uniforms'.handPos, particles[i].random, c1, c2) :
                   particles'[i].position =
                      Mix(particles[i].position, target,
                          FMul(ShaderBlend(uniforms'.gesture), 100))]_vars

\* hues of the palette of NONE (hue base 0.5, hue range 0.1)
HuesOfNone == {500 + FMul(RandomCycle[k] - 500, 100) : k \in DOMAIN RandomCycle}

\* C9: a frame computed while the current gesture is outside GESTURES does
\* not throw, hands the shader the selector 0 (drift branch, blend 0.02) and
\* recolours from the palette of NONE (hue base 0.5, hue range 0.1).
C9_UnknownAsNone ==
    (lastOp = "animate" /\ currentGesture \notin GESTURES)
    => /\ ~threw
       /\ uniforms.gesture = 0
       /\ ShaderBlend(uniforms.gesture) = 20
       /\ HueBase(currentGesture) = 500 /\ HueRange(currentGesture) = 100
       /\ particles[0].color \in HuesOfNone

\* C9 for the values that are not the name of an inherited property either
C9_UnknownNotInherited ==
    (lastOp = "animate" /\ currentGesture \notin GESTURES \cup ObjectPrototypeKeys)
    => /\ ~threw
       /\ uniforms.gesture = 0
       /\ ShaderBlend(uniforms.gesture) = 20
       /\ HueBase(currentGesture) = 500 /\ HueRange(currentGesture) = 100
       /\ particles[0].color \in HuesOfNone

----------------------------------------------------------------------------
(* Properties of the anchor *)

Clamp(v, lo, hi) == IF v < lo THEN lo ELSE IF v > hi THEN hi ELSE v

\* the anchor of section 4.1 for a hand with landmarks 0 and 9, in
\* half-thousandths (the means are the sums of the coordinates in thousandths)
SpecAnchor(h) ==
    LET avgX == h[0].x + h[9].x
        avgY == h[0].y + h[9].y
        avgZ == h[0].z + h[9].z
    IN  [x |-> (2000 - avgX) * 2 - 2000,
         y |-> 0 - (avgY * 2 - 2000),
         z |-> Clamp(0 - avgZ, -2000, 2000)]

\* C11: after a tracker callback reporting a hand, under an override or not,
\* the anchor is x = (1 - avgX)*2 - 1, y = -(avgY*2 - 1), z = clamp(-avgZ, -1, 1)
\* of the mean of landmarks 0 and 9, and its z lies in [-1, 1] for any depth
\* values of the landmarks.
C11_Anchor ==
    [][\A h \in {g \in Hands : Has(g, 0) /\ Has(g, 9)} :
          onHandResults(OneHand(h))
          => /\ handPosition' = SpecAnchor(h)
             /\ handPosition'.z \in -2000..2000]_vars

\* C11 for hands of 21 landmarks with finite coordinates, depths beyond the
\* clamp range included: the anchor onHandResults computes for them (lines
\* 504-513) is the one of section 4.1 with z in [-1, 1], and so is the anchor
\* of every recorded call.
C11_AnchorFinite ==
    /\ \A h \in WellFormedHands :
          /\ Anchor(h[0], h[9]) = SpecAnchor(h)
          /\ Anchor(h[0], h[9]).z \in -2000..2000
    /\ \A i \in 1..Len(memo) :
          memo[i].landmarks \in WellFormedHands
          => memo[i].anchor = SpecAnchor(memo[i].landmarks)

----------------------------------------------------------------------------
(* Properties of the colour update *)

\* hue base and hue range of section 4.3; any other value has those of NONE
SpecPalette(gesture) ==
    CASE gesture = FIST -> [base |-> 80, range |-> 100]
      [] gesture = OPEN -> [base |-> 400, range |-> 150]
      [] gesture = PEACE -> [base |-> 600, range |-> 200]
      [] gesture = METAL -> [base |-> 950, range |-> 100]
      [] OTHER -> [base |-> 500, range |-> 100]

SpecStride(n) == IF n \div 300 >= 1 THEN n \div 300 ELSE 1

InPalette(hue, gesture) ==
    LET pal == SpecPalette(gesture) IN
    /\ hue >= pal.base - pal.range \div 2
    /\ hue <= pal.base + pal.range \div 2

\* C12: one frame rewrites the colour of exactly the particles whose index
\* is a multiple of max(1, floor(N / 300)), with a hue within hueRange / 2 of
\* the hueBase of the current gesture, and leaves every other colour as it was.
C12_Stride ==
    [][time' # time
       => \A i \in DOMAIN particles :
             IF i % SpecStride(particleCount) = 0
             THEN InPalette(particles'[i].color, currentGesture)
             ELSE particles'[i].color = particles[i].color]_vars

\* a frame under FIST over 4000 particles (stride 13): particles 0 and 13 are
\* gold, of two hues, particle 6 keeps a colour that is not of the FIST palette
C12_Witness ==
    /\ lastOp = "animate" /\ particleCount = 4000 /\ currentGesture = FIST
    /\ InPalette(particles[0].color, FIST)
    /\ InPalette(particles[13].color, FIST)
    /\ particles[0].color # particles[13].color
    /\ ~InPalette(particles[6].color, FIST)

=============================================================================
